---- MODULE Spec2Model ----
(***************************************************************************)
(* Session / authentication core of saas-starter (_portable/auth):         *)
(*   session.ts  - signToken / verifyToken / setSession (jose HS256 JWT)   *)
(*   middleware  - route protection and sliding session refresh            *)
(*   helpers.ts  - validatedAction / validatedActionWithUser               *)
(*                                                                         *)
(* Time is the millisecond clock Date.now().  jose stamps and checks the   *)
(* iat / exp claims in whole seconds, Math.floor(ms / 1000).               *)
(***************************************************************************)
EXTENDS Integers, Sequences, FiniteSets, TLC

VARIABLES
    now,        \* Date.now(), in milliseconds
    ticks,      \* number of clock advances taken (bounded)
    nops,       \* number of handler invocations taken (bounded)
    jar,        \* the client's session cookie: NoCookie or a cookie record
    inflight,   \* responses with a cookie instruction not yet applied by the client
    signLog,    \* every signToken call so far: [tok, by, from]
    last,       \* the last gatekeeper / session operation: its input, the
                \* clock at its start (at) and end (done), and what it did
    act         \* what the last validated-action invocation did

vars == <<now, ticks, nops, jar, inflight, signLog, last, act>>

---------------------------------------------------------------------------
(* Bounds of the model *)

MaxTicks == 2
MaxOps == 2
MaxInflight == 1
MaxUserId == 2

\* clock advances between operations (ms): half a second, and a day less a
\* millisecond; the two together pass a day
Steps == {500, 86399999}

\* time that can pass inside a handler between its reading of Date.now()
\* and the clock reading of signToken (ms)
Delays == {0, 1000}

UserIds == 1..MaxUserId

---------------------------------------------------------------------------
(* Program constants *)

\* session.ts:64  SESSION_DURATION_MS = 24 * 60 * 60 * 1000
SESSION_DURATION_MS == 86400000

\* session.ts:48  setExpirationTime('1 day from now'), in seconds
ONE_DAY_SECS == 86400

\* session.ts:63 / middleware:32
SESSION_COOKIE == "session"

\* middleware:26  pathname prefix of the protected routes, "/dashboard"
protectedRoutes == <<"/", "dashboard">>

\* middleware:29
signInPath == <<"/", "sign-in">>

\* session.ts:17  key = TextEncoder().encode(process.env.AUTH_SECRET)
key == "AUTH_SECRET"

---------------------------------------------------------------------------
(* Values *)

NoCookie == [kind |-> "absent"]
NoToken == [kind |-> "notoken"]

\* cookie values that are not a compact JWS: the empty string, any other junk
EmptyValue == [kind |-> "empty"]
Junk == [kind |-> "junk"]

\* jose epoch(date): Math.floor(date.getTime() / 1000)
Epoch(t) == t \div 1000

\* Date.prototype.toISOString / new Date(iso): millisecond-exact text form
toISOString(t) == [iso |-> t]
DateParse(s) == s.iso

\* HMAC-SHA256 over header and payload, as an ideal MAC: the tag is
\* determined by the key and the signed content and by nothing else
HS256(k, alg, payload) == [k |-> k, alg |-> alg, over |-> payload]

JWT(alg, payload, sig) ==
    [kind |-> "jwt", alg |-> alg, payload |-> payload, sig |-> sig]

---------------------------------------------------------------------------
(* Token codec: session.ts signToken / verifyToken *)

\* a signToken that keeps the iat and exp claims a payload already carries
signTokenKeepsStamps(payload, t) ==
    LET stamped == "iat" \in DOMAIN payload
        claims == [user |-> payload.user,
                   expires |-> payload.expires,
                   iat |-> IF stamped THEN payload.iat ELSE Epoch(t),
                   exp |-> IF stamped THEN payload.exp
                           ELSE Epoch(t) + ONE_DAY_SECS]
    IN JWT("HS256", claims, HS256(key, "HS256", claims))

\* new SignJWT(payload).setProtectedHeader({alg: 'HS256'}).setIssuedAt()
\*   .setExpirationTime('1 day from now').sign(key), the clock reading t:
\* every claim of payload is kept, iat and exp are (re)stamped
signToken(payload, t) ==
    LET claims == [user |-> payload.user,
                   expires |-> payload.expires,
                   iat |-> Epoch(t),
                   exp |-> Epoch(t) + ONE_DAY_SECS]
    IN JWT("HS256", claims, HS256(key, "HS256", claims))

Fail(e) == [ok |-> FALSE, error |-> e]

\* a verifyToken that accepts a token in the second its exp claim names
verifyTokenLateExpiry(input, t) ==
    IF input.kind # "jwt" THEN Fail("MalformedToken")
    ELSE IF input.alg # "HS256" THEN Fail("AlgNotAllowed")
    ELSE IF input.sig # HS256(key, input.alg, input.payload)
    THEN Fail("InvalidSignature")
    ELSE IF input.payload.exp < Epoch(t) THEN Fail("Expired")
    ELSE [ok |-> TRUE, payload |-> input.payload]

\* a verifyToken that compares the exp claim, in seconds, with the clock in
\* milliseconds
verifyTokenMsClock(input, t) ==
    IF input.kind # "jwt" THEN Fail("MalformedToken")
    ELSE IF input.alg # "HS256" THEN Fail("AlgNotAllowed")
    ELSE IF input.sig # HS256(key, input.alg, input.payload)
    THEN Fail("InvalidSignature")
    ELSE IF input.payload.exp <= t THEN Fail("Expired")
    ELSE [ok |-> TRUE, payload |-> input.payload]

\* a verifyToken that decodes the token without checking its signature
verifyTokenNoSignatureCheck(input, t) ==
    IF input.kind # "jwt" THEN Fail("MalformedToken")
    ELSE IF input.payload.exp <= Epoch(t) THEN Fail("Expired")
    ELSE [ok |-> TRUE, payload |-> input.payload]

\* jwtVerify(input, key, {algorithms: ['HS256']}), the clock reading t:
\* compact form, then the algorithm allow-list, then the signature, and
\* only then the claims (exp <= now fails)
verifyToken(input, t) ==
    IF input.kind # "jwt" THEN Fail("MalformedToken")
    ELSE IF input.alg # "HS256" THEN Fail("AlgNotAllowed")
    ELSE IF input.sig # HS256(key, input.alg, input.payload)
    THEN Fail("InvalidSignature")
    ELSE IF input.payload.exp <= Epoch(t) THEN Fail("Expired")
    ELSE [ok |-> TRUE, payload |-> input.payload]

---------------------------------------------------------------------------
(* Cookies and responses *)

NoOp == [op |-> "none"]
DeleteCookie(name) == [op |-> "delete", name |-> name]

\* the options both setSession and the middleware pass to cookies.set
SetCookie(name, value, expires) ==
    [op |-> "set", name |-> name, value |-> value, httpOnly |-> TRUE,
     secure |-> TRUE, sameSite |-> "lax", expires |-> expires]

\* NextResponse.next() and NextResponse.redirect(new URL(path, request.url)):
\* each call builds a new response, with no cookie instruction on it
NextResponseNext == [kind |-> "next", location |-> <<>>, cookie |-> NoOp]
NextResponseRedirect(path) ==
    [kind |-> "redirect", location |-> path, cookie |-> NoOp]

\* String.prototype.startsWith on paths held as sequences of pieces
startsWith(s, prefix) ==
    /\ Len(s) >= Len(prefix)
    /\ SubSeq(s, 1, Len(prefix)) = prefix

---------------------------------------------------------------------------
(* Edge gatekeeper: middleware(request) *)

\* a request: [method, pathname, cookie], cookie the value of the session
\* cookie it carries or NoCookie

\* middleware:41  pathname.startsWith(protectedRoutes)
isProtected(pathname) == startsWith(pathname, protectedRoutes)

\* middleware:80  matcher '/((?!api|_next/static|_next/image|favicon.ico).*)':
\* the middleware runs unless the path continues, after its first slash,
\* with one of the excluded heads
matcher(pathname) ==
    ~ \/ startsWith(pathname, <<"/", "api">>)
      \/ startsWith(pathname, <<"/", "_next/static">>)
      \/ startsWith(pathname, <<"/", "_next/image">>)
      \/ startsWith(pathname, <<"/", "favicon.ico">>)

\* an early return that is taken for read requests only
redirectsNoCookieOnGet(request) ==
    /\ isProtected(request.pathname)
    /\ request.cookie = NoCookie
    /\ request.method = "GET"

\* middleware:44  isProtectedRoute && !sessionCookie
redirectsNoCookie(request) ==
    /\ isProtected(request.pathname)
    /\ request.cookie = NoCookie

\* a refresh that is attempted whatever the method
refreshesAnyMethod(request) ==
    request.cookie # NoCookie

\* middleware:51  sessionCookie && request.method === 'GET'
refreshes(request) ==
    /\ request.cookie # NoCookie
    /\ request.method = "GET"

\* a renewal that re-signs the parsed payload as it is
renewKeepsExpires(parsed, tNow, tSign) ==
    LET expiresInOneDay == tNow + SESSION_DURATION_MS
        value == signToken(parsed, tSign)
    IN  [response |-> [NextResponseNext EXCEPT
                         !.cookie = SetCookie(SESSION_COOKIE, value, expiresInOneDay)],
         verify |-> "Valid", signed |-> value, discarded |-> NoOp]

\* middleware:54-66  the try block after a successful verifyToken:
\* Date.now() reads tNow, signToken's clock reads tSign
renew(parsed, tNow, tSign) ==
    LET expiresInOneDay == tNow + SESSION_DURATION_MS
        value == signToken([parsed EXCEPT !.expires = toISOString(expiresInOneDay)],
                           tSign)
    IN  [response |-> [NextResponseNext EXCEPT
                         !.cookie = SetCookie(SESSION_COOKIE, value, expiresInOneDay)],
         verify |-> "Valid", signed |-> value, discarded |-> NoOp]

\* a gatekeeper without the catch block: the failure leaves the middleware
onVerifyFailureRethrows(error, isProtectedRoute) ==
    [response |-> [kind |-> "error", location |-> <<>>, cookie |-> NoOp],
     verify |-> error, signed |-> NoToken, discarded |-> NoOp]

\* middleware:67-73  the catch block: the deletion is put on res; on a
\* protected route a new redirect response is returned and res is dropped
onVerifyFailure(error, isProtectedRoute) ==
    IF isProtectedRoute
    THEN [response |-> NextResponseRedirect(signInPath),
          verify |-> error, signed |-> NoToken,
          discarded |-> DeleteCookie(SESSION_COOKIE)]
    ELSE [response |-> [NextResponseNext EXCEPT
                          !.cookie = DeleteCookie(SESSION_COOKIE)],
          verify |-> error, signed |-> NoToken, discarded |-> NoOp]

\* middleware:38-77.  tVerify, tNow, tSign: the clock as read by jwtVerify,
\* by Date.now() (line 54) and by signToken
middleware(request, tVerify, tNow, tSign) ==
    IF redirectsNoCookie(request)
    THEN [response |-> NextResponseRedirect(signInPath),
          verify |-> "none", signed |-> NoToken, discarded |-> NoOp]
    ELSE IF refreshes(request)
    THEN LET v == verifyToken(request.cookie, tVerify)
         IN  IF v.ok
             THEN renew(v.payload, tNow, tSign)
             ELSE onVerifyFailure(v.error, isProtected(request.pathname))
    ELSE [response |-> NextResponseNext,
          verify |-> "none", signed |-> NoToken, discarded |-> NoOp]

---------------------------------------------------------------------------
(* Session store: session.ts setSession *)

\* a setSession that takes the cookie's expiry from the clock after signing
setSessionExpiresAtSigning(user, tNow, tSign) ==
    LET expiresInOneDay == tNow + SESSION_DURATION_MS
        session == [user |-> [id |-> user.id],
                    expires |-> toISOString(expiresInOneDay)]
        encryptedSession == signToken(session, tSign)
    IN  SetCookie(SESSION_COOKIE, encryptedSession, tSign + SESSION_DURATION_MS)

\* session.ts:72-85.  Date.now() reads tNow, signToken's clock reads tSign;
\* the result is the cookie instruction and the token signed
setSession(user, tNow, tSign) ==
    LET expiresInOneDay == tNow + SESSION_DURATION_MS
        session == [user |-> [id |-> user.id],
                    expires |-> toISOString(expiresInOneDay)]
        encryptedSession == signToken(session, tSign)
    IN  SetCookie(SESSION_COOKIE, encryptedSession, expiresInOneDay)

---------------------------------------------------------------------------
(* Requests the gatekeeper can receive *)

Methods == {"GET", "POST"}

Paths == { <<"/", "pricing">>,
           <<"/", "dashboard", "/settings">>,
           <<"/", "api", "/user">> }

\* a token of the server with another user id put in its payload, the
\* signature left as it was
TamperUser(t) == [t EXCEPT !.payload.user.id = (@ % MaxUserId) + 1]

\* the payload of a token, exp moved a day on, signed with another key
OtherKey(t) ==
    LET p == [t.payload EXCEPT !.exp = @ + ONE_DAY_SECS]
    IN  JWT("HS256", p, HS256("attacker", "HS256", p))

\* the payload of a token under the header alg: none, unsigned
AlgNone(t) == JWT("none", t.payload, [k |-> "", alg |-> "none", over |-> t.payload])

\* tokens the server has signed so far
Signed == {e.tok : e \in signLog}

\* what a request may carry as its session cookie: nothing, a value that is
\* no token, any token the server ever signed (current or replayed), or a
\* forgery made from the cookie the client holds
Presentable ==
    {NoCookie, EmptyValue, Junk}
      \cup Signed
      \cup (IF jar = NoCookie THEN {}
            ELSE {TamperUser(jar.value), OtherKey(jar.value),
                  AlgNone(jar.value)})

Requests ==
    [method : Methods, pathname : Paths, cookie : Presentable]

---------------------------------------------------------------------------
(* The state machine *)

Idle == [op |-> "init"]

Init ==
    /\ now = 0
    /\ ticks = 0
    /\ nops = 0
    /\ jar = NoCookie
    /\ inflight = {}
    /\ signLog = {}
    /\ last = Idle
    /\ act = Idle

\* the clock advances between operations
Tick(d) ==
    /\ ticks < MaxTicks
    /\ now' = now + d
    /\ ticks' = ticks + 1
    /\ UNCHANGED <<nops, jar, inflight, signLog, last, act>>

\* a sign-in whose cookie is only stored when the client holds none
SetSessionKeepsExisting(u, d) ==
    /\ nops < MaxOps
    /\ LET c == setSession([id |-> u], now, now + d)
       IN  /\ jar' = IF jar = NoCookie THEN c ELSE jar
           /\ signLog' = signLog \cup
                 {[tok |-> c.value, by |-> "setSession", from |-> NoToken]}
           /\ last' = [op |-> "setSession", at |-> now, done |-> now + d,
                       user |-> u, cookie |-> c]
    /\ now' = now + d
    /\ nops' = nops + 1
    /\ UNCHANGED <<ticks, inflight, act>>

\* a sign-in calls setSession(user); d passes between its Date.now() and
\* the signing.  cookies().set overwrites the session cookie of the client
SetSession(u, d) ==
    /\ nops < MaxOps
    /\ LET c == setSession([id |-> u], now, now + d)
       IN  /\ jar' = c
           /\ signLog' = signLog \cup
                 {[tok |-> c.value, by |-> "setSession", from |-> NoToken]}
           /\ last' = [op |-> "setSession", at |-> now, done |-> now + d,
                       user |-> u, cookie |-> c]
    /\ now' = now + d
    /\ nops' = nops + 1
    /\ UNCHANGED <<ticks, inflight, act>>

\* the gatekeeper handles one request the matcher selects; jwtVerify and
\* Date.now() read the clock at now, d passes until signToken reads it.
\* A response with a cookie instruction travels to the client
Middleware(request, d) ==
    /\ nops < MaxOps
    /\ matcher(request.pathname)
    /\ LET out == middleware(request, now, now, now + d)
           c == out.response.cookie
       IN  /\ out.signed = NoToken => d = 0
           /\ c # NoOp => Cardinality(inflight) < MaxInflight
           /\ inflight' = IF c # NoOp THEN inflight \cup {c} ELSE inflight
           /\ signLog' = IF out.signed # NoToken
                         THEN signLog \cup
                                {[tok |-> out.signed, by |-> "middleware",
                                  from |-> request.cookie]}
                         ELSE signLog
           /\ now' = IF out.signed # NoToken THEN now + d ELSE now
           /\ last' = [op |-> "middleware", at |-> now, done |-> now',
                       request |-> request, out |-> out]
    /\ nops' = nops + 1
    /\ UNCHANGED <<ticks, jar, act>>

\* a request the matcher excludes never reaches the gatekeeper
Bypass(request) ==
    /\ nops < MaxOps
    /\ ~ matcher(request.pathname)
    /\ last' = [op |-> "bypass", at |-> now, request |-> request]
    /\ nops' = nops + 1
    /\ UNCHANGED <<now, ticks, jar, inflight, signLog, act>>

\* the client applies the cookie instruction of a response
Deliver(c) ==
    /\ c \in inflight
    /\ inflight' = inflight \ {c}
    /\ jar' = IF c.op = "set" THEN c ELSE NoCookie
    /\ UNCHANGED <<now, ticks, nops, signLog, last, act>>

Next ==
    \/ \E d \in Steps : Tick(d)
    \/ \E u \in UserIds, d \in Delays : SetSession(u, d)
    \/ \E r \in Requests, d \in Delays : Middleware(r, d)
    \/ \E r \in Requests : Bypass(r)
    \/ \E c \in inflight : Deliver(c)

Spec == Init /\ [][Next]_vars

---------------------------------------------------------------------------
(* Session store read and sign-out, and the client as a browser *)

\* a getSession without the guard for a request that has no cookie value
getSessionUnguarded(cookie, t) ==
    LET v == verifyToken(cookie, t)
    IN  IF v.ok THEN [kind |-> "payload", payload |-> v.payload]
        ELSE [kind |-> "threw", error |-> v.error]

\* a getSession that turns a failed verification into "no session"
getSessionSwallows(cookie, t) ==
    IF cookie = NoCookie \/ cookie = EmptyValue
    THEN [kind |-> "null"]
    ELSE LET v == verifyToken(cookie, t)
         IN  IF v.ok THEN [kind |-> "payload", payload |-> v.payload]
             ELSE [kind |-> "null"]

\* session.ts:66-70.  cookie is what cookies().get(SESSION_COOKIE) finds:
\* undefined and the empty value are falsy and give null; anything else is
\* handed to verifyToken, whose rejection propagates
getSession(cookie, t) ==
    IF cookie = NoCookie \/ cookie = EmptyValue
    THEN [kind |-> "null"]
    ELSE LET v == verifyToken(cookie, t)
         IN  IF v.ok THEN [kind |-> "payload", payload |-> v.payload]
             ELSE [kind |-> "threw", error |-> v.error]

\* the session store's clear(): instructs the deletion of the session cookie
clearSession == DeleteCookie(SESSION_COOKIE)

\* what is kept of the operation before a read
Summary(l) ==
    IF l.op = "setSession"
    THEN [op |-> l.op, user |-> l.user, done |-> l.done, cookie |-> l.cookie]
    ELSE [op |-> l.op]

\* the cookie a browser sends: the one it holds, until its Expires passes
BrowserCookie == IF jar # NoCookie /\ now < jar.expires THEN jar.value ELSE NoCookie

\* a server component or action reads the session of the client
GetSession ==
    /\ last' = [op |-> "getSession", at |-> now, cookie |-> BrowserCookie,
                out |-> getSession(BrowserCookie, now), prev |-> Summary(last)]
    /\ UNCHANGED <<now, ticks, nops, jar, inflight, signLog, act>>

\* the user signs out: the deletion is applied to the client's cookie
ClearSession ==
    /\ jar' = IF clearSession.op = "delete" THEN NoCookie ELSE jar
    /\ last' = [op |-> "clearSession", at |-> now, before |-> jar]
    /\ UNCHANGED <<now, ticks, nops, inflight, signLog, act>>

\* the gatekeeper handles a request of a browser
BrowserRequest(method, pathname, d) ==
    Middleware([method |-> method, pathname |-> pathname, cookie |-> BrowserCookie], d)

NextStore ==
    \/ \E d \in Steps : Tick(d)
    \/ \E u \in UserIds, d \in Delays : SetSession(u, d)
    \/ \E m \in Methods, p \in Paths, d \in Delays : BrowserRequest(m, p, d)
    \/ \E c \in inflight : Deliver(c)
    \/ GetSession
    \/ ClearSession

SpecStore == Init /\ [][NextStore]_vars

---------------------------------------------------------------------------
(* Action validator: helpers.ts validatedAction / validatedActionWithUser *)

MaxEntries == 2

\* strings, as sequences of characters
NotAnEmail == <<"n", "o", "t", "-", "a", "n", "-", "e", "m", "a", "i", "l">>
GoodEmail == <<"a", "@", "b", ".", "c", "o">>
Short == <<"s", "h", "o", "r", "t">>
Seven == <<"1", "2", "3", "4", "5", "6", "7">>
Eight == <<"1", "2", "3", "4", "5", "6", "7", "8">>

\* z.string().email(): one "@" after a non-empty local part, then a domain
\* with a non-empty label, a last "." and at least two characters after it
IsEmail(s) ==
    \E i \in 2..Len(s) :
        /\ s[i] = "@"
        /\ \A j \in 1..Len(s) : s[j] = "@" => j = i
        /\ \E k \in (i + 2)..(Len(s) - 2) :
              /\ s[k] = "."
              /\ \A j \in (k + 1)..Len(s) : s[j] # "."

\* one check of a z.string() chain against a value
Passes(check, v) ==
    IF check.kind = "email" THEN IsEmail(v)
    ELSE IF check.kind = "min" THEN Len(v) >= check.n
    ELSE TRUE

\* z.object({email: z.string().email(), password: z.string().min(8)})
SignInSchema ==
    << [name |-> "email",
        checks |-> << [kind |-> "email", n |-> 0, message |-> "Invalid email"] >>],
       [name |-> "password",
        checks |-> << [kind |-> "min", n |-> 8,
                       message |-> "String must contain at least 8 character(s)"] >>] >>

\* z.object({password: z.string().min(8).email()}): two checks on one field
PasswordSchema ==
    << [name |-> "password",
        checks |-> << [kind |-> "min", n |-> 8,
                       message |-> "String must contain at least 8 character(s)"],
                      [kind |-> "email", n |-> 0, message |-> "Invalid email"] >>] >>

Schemas == {SignInSchema, PasswordSchema}

\* Object.fromEntries(formData): one property per name, the last entry of a
\* name wins
fromEntries(formData) ==
    [k \in {formData[i][1] : i \in DOMAIN formData} |->
        LET i == CHOOSE i \in DOMAIN formData :
                    /\ formData[i][1] = k
                    /\ \A j \in DOMAIN formData : formData[j][1] = k => j <= i
        IN  formData[i][2]]

\* the issues of one field of the shape, in the order of its checks
FieldIssues(field, obj) ==
    IF field.name \notin DOMAIN obj
    THEN << "Required" >>
    ELSE LET failed == SelectSeq(field.checks, LAMBDA c : ~ Passes(c, obj[field.name]))
         IN  [i \in 1..Len(failed) |-> failed[i].message]

RECURSIVE Issues(_, _)
Issues(schema, obj) ==
    IF schema = << >> THEN << >>
    ELSE FieldIssues(Head(schema), obj) \o Issues(Tail(schema), obj)

\* schema.safeParse(obj) of a z.object: never throws; on success the data
\* holds the keys of the shape only, on failure the issues in shape order
safeParse(schema, obj) ==
    LET issues == Issues(schema, obj)
    IN  IF issues = << >>
        THEN [success |-> TRUE,
              data |-> [k \in {schema[i].name : i \in DOMAIN schema} |-> obj[k]]]
        ELSE [success |-> FALSE, error |-> [errors |-> issues]]

NoUser == [kind |-> "null"]
UserLookupFails == [kind |-> "throws"]

Returned(calls, v) == [calls |-> calls, outcome |-> [kind |-> "returned", value |-> v]]
Threw(calls, e) == [calls |-> calls, outcome |-> [kind |-> "threw", error |-> e]]

\* the handler the caller supplies: records what it was given
action(args) == [success |-> "handled", args |-> args]

\* a wrapper that hands the unparsed fields to the handler whatever the parse says
validatedActionUnchecked(schema, formData) ==
    LET obj == fromEntries(formData)
    IN  Returned(<< [fn |-> "safeParse"], [fn |-> "action", args |-> <<obj, formData>>] >>,
                 action(<<obj, formData>>))

\* helpers.ts:50-56.  The result is the outcome of the call and the calls
\* made on the way, in order
validatedAction(schema, formData) ==
    LET result == safeParse(schema, fromEntries(formData))
    IN  IF ~ result.success
        THEN Returned(<< [fn |-> "safeParse"] >>, [error |-> result.error.errors[1]])
        ELSE Returned(<< [fn |-> "safeParse"],
                         [fn |-> "action", args |-> <<result.data, formData>>] >>,
                      action(<<result.data, formData>>))

\* a wrapper that turns the missing user into a soft error result
validatedActionWithUserSoftError(schema, formData, got) ==
    IF got = UserLookupFails
    THEN Threw(<< [fn |-> "getUser"] >>, "getUser failed")
    ELSE IF got = NoUser
    THEN Returned(<< [fn |-> "getUser"] >>, [error |-> "User is not authenticated"])
    ELSE LET result == safeParse(schema, fromEntries(formData))
         IN  IF ~ result.success
             THEN Returned(<< [fn |-> "getUser"], [fn |-> "safeParse"] >>,
                           [error |-> result.error.errors[1]])
             ELSE Returned(<< [fn |-> "getUser"], [fn |-> "safeParse"],
                              [fn |-> "action", args |-> <<result.data, formData, got>>] >>,
                           action(<<result.data, formData, got>>))

\* a wrapper that calls the handler before it looks at the parse result
validatedActionWithUserHandlerFirst(schema, formData, got) ==
    IF got = UserLookupFails
    THEN Threw(<< [fn |-> "getUser"] >>, "getUser failed")
    ELSE IF got = NoUser
    THEN Threw(<< [fn |-> "getUser"] >>, "User is not authenticated")
    ELSE LET obj == fromEntries(formData)
             result == safeParse(schema, obj)
         IN  IF ~ result.success
             THEN Returned(<< [fn |-> "getUser"],
                              [fn |-> "action", args |-> <<obj, formData, got>>],
                              [fn |-> "safeParse"] >>,
                           [error |-> result.error.errors[1]])
             ELSE Returned(<< [fn |-> "getUser"],
                              [fn |-> "action", args |-> <<obj, formData, got>>],
                              [fn |-> "safeParse"] >>,
                           action(<<obj, formData, got>>))

\* a wrapper that throws on a violation when there is a user
validatedActionWithUserParseThrows(schema, formData, got) ==
    IF got = UserLookupFails
    THEN Threw(<< [fn |-> "getUser"] >>, "getUser failed")
    ELSE IF got = NoUser
    THEN Threw(<< [fn |-> "getUser"] >>, "User is not authenticated")
    ELSE LET result == safeParse(schema, fromEntries(formData))
         IN  IF ~ result.success
             THEN Threw(<< [fn |-> "getUser"], [fn |-> "safeParse"] >>, "ZodError")
             ELSE Returned(<< [fn |-> "getUser"], [fn |-> "safeParse"],
                              [fn |-> "action", args |-> <<result.data, formData, got>>] >>,
                           action(<<result.data, formData, got>>))

\* helpers.ts:98-108.  got is what getUserFn() yields: a user, null, or a
\* failure of its own (a store or verification error), which propagates
validatedActionWithUser(schema, formData, got) ==
    IF got = UserLookupFails
    THEN Threw(<< [fn |-> "getUser"] >>, "getUser failed")
    ELSE IF got = NoUser
    THEN Threw(<< [fn |-> "getUser"] >>, "User is not authenticated")
    ELSE LET result == safeParse(schema, fromEntries(formData))
         IN  IF ~ result.success
             THEN Returned(<< [fn |-> "getUser"], [fn |-> "safeParse"] >>,
                           [error |-> result.error.errors[1]])
             ELSE Returned(<< [fn |-> "getUser"], [fn |-> "safeParse"],
                              [fn |-> "action", args |-> <<result.data, formData, got>>] >>,
                           action(<<result.data, formData, got>>))

\* submitted field sets: up to MaxEntries entries, names may repeat
FieldNames == {"email", "password", "next"}
FieldValues == {NotAnEmail, GoodEmail, Short, Seven, Eight}
Entries == FieldNames \X FieldValues
FormDatas == UNION {[1..n -> Entries] : n \in 0..MaxEntries}

UserResults == {NoUser, UserLookupFails} \cup {[kind |-> "user", id |-> u] : u \in UserIds}

\* the calls of the produced actions that can be made
ActionCalls ==
    [op : {"call"}, variant : {"validatedAction"}, schema : Schemas,
     formData : FormDatas, user : {NoUser}]
      \cup
    [op : {"call"}, variant : {"validatedActionWithUser"}, schema : Schemas,
     formData : FormDatas, user : UserResults]

InitAction ==
    /\ now = 0
    /\ ticks = 0
    /\ nops = 0
    /\ jar = NoCookie
    /\ inflight = {}
    /\ signLog = {}
    /\ last = Idle
    /\ act \in ActionCalls

\* the action validatedAction(schema, handler) produced is invoked
InvokeValidatedAction ==
    /\ act.op = "call"
    /\ act.variant = "validatedAction"
    /\ act' = [op |-> "done", call |-> act,
               run |-> validatedAction(act.schema, act.formData)]
    /\ UNCHANGED <<now, ticks, nops, jar, inflight, signLog, last>>

\* the action validatedActionWithUser(schema, handler) produced is invoked
InvokeValidatedActionWithUser ==
    /\ act.op = "call"
    /\ act.variant = "validatedActionWithUser"
    /\ act' = [op |-> "done", call |-> act,
               run |-> validatedActionWithUser(act.schema, act.formData, act.user)]
    /\ UNCHANGED <<now, ticks, nops, jar, inflight, signLog, last>>

NextAction ==
    \/ InvokeValidatedAction
    \/ InvokeValidatedActionWithUser

SpecAction == InitAction /\ [][NextAction]_vars

---------------------------------------------------------------------------
(* The codec and the session read as functions of their inputs *)

\* clock readings of the calls (ms): around the start, and around a day later
CodecTimes == {0, 999, 1000, 86399999, 86400000, 86400999, 86401000}
SignTimes == {0, 1000}

\* SessionData as setSession builds it, and as the gatekeeper's renewal
\* passes it on: the verified payload spread, old iat and exp included
FreshPayloads ==
    [user : [id : UserIds],
     expires : {toISOString(t + SESSION_DURATION_MS) : t \in SignTimes}]
RenewalPayloads ==
    {[user |-> p.user, expires |-> p.expires,
      iat |-> 0, exp |-> ONE_DAY_SECS] : p \in FreshPayloads}
SessionPayloads == FreshPayloads \cup RenewalPayloads

\* session cookie values a request can carry
CodecTokens == {signToken(p, t) : p \in FreshPayloads, t \in SignTimes}
CodecCookies ==
    {NoCookie, EmptyValue, Junk} \cup CodecTokens
      \cup {TamperUser(k) : k \in CodecTokens}
      \cup {OtherKey(k) : k \in CodecTokens}
      \cup {AlgNone(k) : k \in CodecTokens}

CodecCalls ==
    {c \in [op : {"call"}, fn : {"roundTrip"}, payload : SessionPayloads,
            tSign : CodecTimes, tVerify : CodecTimes] : c.tSign <= c.tVerify}
      \cup
    [op : {"call"}, fn : {"getSession"}, cookie : CodecCookies, t : CodecTimes]

InitCodec ==
    /\ now = 0
    /\ ticks = 0
    /\ nops = 0
    /\ jar = NoCookie
    /\ inflight = {}
    /\ signLog = {}
    /\ last = Idle
    /\ act \in CodecCalls

\* verifyToken(await signToken(payload)), the clock read at each call
RoundTrip ==
    /\ act.op = "call"
    /\ act.fn = "roundTrip"
    /\ LET token == signToken(act.payload, act.tSign)
       IN  act' = [op |-> "done", call |-> act, token |-> token,
                   out |-> verifyToken(token, act.tVerify)]
    /\ UNCHANGED <<now, ticks, nops, jar, inflight, signLog, last>>

\* getSession() on a request carrying the cookie
ReadSession ==
    /\ act.op = "call"
    /\ act.fn = "getSession"
    /\ act' = [op |-> "done", call |-> act,
               out |-> getSession(act.cookie, act.t)]
    /\ UNCHANGED <<now, ticks, nops, jar, inflight, signLog, last>>

NextCodec ==
    \/ RoundTrip
    \/ ReadSession

SpecCodec == InitCodec /\ [][NextCodec]_vars

---------------------------------------------------------------------------
(* User resolution against the account store *)

\* the users table as the lookup sees it: a row, a row whose deletedAt is
\* set, or no row
AccountStates == {"live", "deleted", "missing"}
Tables == [UserIds -> AccountStates]

\* README getUser: no cookie value gives null; verifyToken's failure
\* propagates; a payload expires before the clock gives null; then the row
\* with that id and deletedAt null, or null
getUser(cookie, t, table) ==
    IF cookie = NoCookie \/ cookie = EmptyValue THEN NoUser
    ELSE LET v == verifyToken(cookie, t)
         IN  IF ~ v.ok THEN UserLookupFails
             ELSE IF v.payload.user.id \notin Nat \ {0} THEN NoUser
             ELSE IF DateParse(v.payload.expires) < t THEN NoUser
             ELSE IF v.payload.user.id \in DOMAIN table
                       /\ table[v.payload.user.id] = "live"
             THEN [kind |-> "user", id |-> v.payload.user.id]
             ELSE NoUser

AccountTimes == {0, 1000, 86400000, 86400999}
AccountCookies == {NoCookie} \cup CodecTokens
AccountForms == { <<>>, << <<"email", GoodEmail>>, <<"password", Eight>> >> }

AccountCalls ==
    [op : {"call"}, fn : {"getUser"}, cookie : AccountCookies,
     t : AccountTimes, table : Tables]
      \cup
    [op : {"call"}, fn : {"validatedActionWithUser"}, cookie : AccountCookies,
     t : AccountTimes, table : Tables, formData : AccountForms]
      \cup
    [op : {"call"}, fn : {"middleware"}, cookie : AccountCookies,
     t : AccountTimes, table : Tables, method : Methods,
     pathname : {q \in Paths : matcher(q)}]

InitAccount ==
    /\ now = 0
    /\ ticks = 0
    /\ nops = 0
    /\ jar = NoCookie
    /\ inflight = {}
    /\ signLog = {}
    /\ last = Idle
    /\ act \in AccountCalls

\* getUser() on a request carrying the cookie
ResolveUser ==
    /\ act.op = "call"
    /\ act.fn = "getUser"
    /\ act' = [op |-> "done", call |-> act,
               out |-> getUser(act.cookie, act.t, act.table)]
    /\ UNCHANGED <<now, ticks, nops, jar, inflight, signLog, last>>

\* an action made by createValidatedActionWithUser(getUser) is invoked
InvokeWithResolvedUser ==
    /\ act.op = "call"
    /\ act.fn = "validatedActionWithUser"
    /\ act' = [op |-> "done", call |-> act,
               run |-> validatedActionWithUser(SignInSchema, act.formData,
                          getUser(act.cookie, act.t, act.table))]
    /\ UNCHANGED <<now, ticks, nops, jar, inflight, signLog, last>>

\* the gatekeeper handles the request; bare is its handling of the same
\* request without the session cookie
GatekeepAccount ==
    /\ act.op = "call"
    /\ act.fn = "middleware"
    /\ LET request == [method |-> act.method, pathname |-> act.pathname,
                       cookie |-> act.cookie]
       IN  act' = [op |-> "done", call |-> act,
                   out |-> middleware(request, act.t, act.t, act.t),
                   bare |-> middleware([request EXCEPT !.cookie = NoCookie],
                                       act.t, act.t, act.t)]
    /\ UNCHANGED <<now, ticks, nops, jar, inflight, signLog, last>>

NextAccount ==
    \/ ResolveUser
    \/ InvokeWithResolvedUser
    \/ GatekeepAccount

SpecAccount == InitAccount /\ [][NextAccount]_vars

---------------------------------------------------------------------------
(* Properties of the gatekeeper and the token codec (specification Spec) *)

Handled == last.op = "middleware"

\* a token the server signed, and the Date.now() reading of the operation
\* that signed it (its payload's expires is that reading plus the duration)
ServerSigned(c) == c \in Signed
IssuedAt(tok) == DateParse(tok.payload.expires) - SESSION_DURATION_MS

\* the request carried a cookie that does not verify at its arrival
CarriesInvalid ==
    /\ last.request.cookie # NoCookie
    /\ ~ verifyToken(last.request.cookie, last.at).ok

RedirectedToSignIn ==
    /\ last.out.response.kind = "redirect"
    /\ last.out.response.location = signInPath

\* C1: a request of any method to a protected path that carries no session
\* cookie is answered with a redirect to the sign-in path, and nothing else
\* happens: no verification, no signing, no cookie set or deleted
C1_NoCookieOnProtectedRedirects ==
    (Handled /\ isProtected(last.request.pathname) /\ last.request.cookie = NoCookie)
        => /\ RedirectedToSignIn
           /\ last.out.response.cookie = NoOp
           /\ last.out.discarded = NoOp
           /\ last.out.verify = "none"
           /\ last.out.signed = NoToken

C1_Witness ==
    /\ Handled
    /\ isProtected(last.request.pathname)
    /\ last.request.cookie = NoCookie
    /\ last.request.method = "POST"
    /\ RedirectedToSignIn

\* C2: a GET request whose session cookie fails verification gets a response
\* that deletes the session cookie; on a protected route that same response
\* is a redirect to sign-in, on an open route the request passes through
C2_FailedVerificationDeletesCookie ==
    (Handled /\ last.request.method = "GET" /\ CarriesInvalid)
        => /\ last.out.response.cookie = DeleteCookie(SESSION_COOKIE)
           /\ isProtected(last.request.pathname) => RedirectedToSignIn
           /\ ~ isProtected(last.request.pathname) => last.out.response.kind = "next"

\* C3: a request of any method to a protected path that carries no valid
\* session cookie (absent, expired, tampered, malformed) is redirected to
\* sign-in and never passed through
C3_ProtectedNeedsValidSession ==
    (Handled /\ isProtected(last.request.pathname)
       /\ (last.request.cookie = NoCookie \/ CarriesInvalid))
        => RedirectedToSignIn

\* the payloads before and after a renewal; last.at is the clock reading at
\* the arrival of the request, last.done the one at its signing
Renewed == Handled /\ last.out.verify = "Valid"
OldPayload == last.request.cookie.payload
NewVerify == verifyToken(last.out.signed, last.done)

\* C4 as stated: after a renewal the new token verifies to the same user id
\* and both its exp claim and its expires field are strictly greater than
\* those of the token presented, whenever the renewal happens
C4_RenewalStrictlyExtends ==
    Renewed
        => /\ NewVerify.ok
           /\ NewVerify.payload.user.id = OldPayload.user.id
           /\ NewVerify.payload.exp > OldPayload.exp
           /\ DateParse(NewVerify.payload.expires) > DateParse(OldPayload.expires)

\* C4 amended: after a renewal the new token verifies to the same user id;
\* its exp claim and its expires field are never less than those of the
\* token presented; the exp claim is strictly greater exactly when the
\* signing falls in a later clock second than the presented token's iat,
\* the expires field exactly when Date.now() is later than the reading the
\* presented token was issued at
C4_RenewalExtends ==
    Renewed
        => /\ NewVerify.ok
           /\ NewVerify.payload.user.id = OldPayload.user.id
           /\ NewVerify.payload.exp >= OldPayload.exp
           /\ DateParse(NewVerify.payload.expires) >= DateParse(OldPayload.expires)
           /\ (NewVerify.payload.exp > OldPayload.exp) <=> (Epoch(last.done) > OldPayload.iat)
           /\ (DateParse(NewVerify.payload.expires) > DateParse(OldPayload.expires))
                 <=> (last.at > IssuedAt(last.request.cookie))

C4_Witness ==
    /\ Renewed
    /\ NewVerify.payload.exp > OldPayload.exp
    /\ DateParse(NewVerify.payload.expires) > DateParse(OldPayload.expires)

\* the response of a request that keeps the user logged in: verified, passed
\* through, a renewed cookie attached, nothing deleted
KeptLoggedIn ==
    /\ last.out.verify = "Valid"
    /\ last.out.response.kind = "next"
    /\ last.out.response.cookie.op = "set"
    /\ last.out.response.cookie.value = last.out.signed
    /\ last.out.discarded = NoOp

ExpClaimPassed(c, t) == c.kind = "jwt" /\ c.payload.exp <= Epoch(t)

\* C6 as stated: a token whose exp claim has passed fails verification with
\* the expiry outcome whatever its signature, and is never renewed
C6_ExpiredFailsWithExpiry ==
    (Handled /\ last.request.method = "GET"
       /\ ExpClaimPassed(last.request.cookie, last.at))
        => /\ last.out.verify = "Expired"
           /\ last.out.signed = NoToken
           /\ last.out.response.cookie.op # "set"

\* C6 amended: a token whose exp claim has passed always fails verification:
\* with the expiry outcome when it is an HS256 token with a valid signature,
\* with the algorithm or signature outcome otherwise (both are checked
\* before the claims); no token the server signed verifies once its exp
\* claim has passed, and a request carrying such a token gets no token
\* signed and no cookie set: every token the gatekeeper signed was renewed
\* from a token of the server whose exp claim had not passed at the renewal,
\* every other token comes from setSession
C6_ExpiredNeverVerifies ==
    /\ \A t \in Signed :
          ExpClaimPassed(t, now) => verifyToken(t, now) = Fail("Expired")
    /\ \A e \in signLog :
          IF e.by = "middleware"
          THEN /\ ServerSigned(e.from)
               /\ ~ ExpClaimPassed(e.from, IssuedAt(e.tok))
          ELSE e.by = "setSession" /\ e.from = NoToken
    /\ (Handled /\ last.request.method = "GET"
          /\ ExpClaimPassed(last.request.cookie, last.at))
        => /\ last.out.verify =
                 (IF last.request.cookie.alg # "HS256" THEN "AlgNotAllowed"
                  ELSE IF ~ ServerSigned(last.request.cookie) THEN "InvalidSignature"
                  ELSE "Expired")
           /\ last.out.signed = NoToken
           /\ last.out.response.cookie.op # "set"

C6_Witness ==
    /\ Handled
    /\ last.request.method = "GET"
    /\ ServerSigned(last.request.cookie)
    /\ ExpClaimPassed(last.request.cookie, last.at)
    /\ last.out.verify = "Expired"

VerifyErrors == {"MalformedToken", "AlgNotAllowed", "InvalidSignature", "Expired"}
VerifyFailed == Handled /\ last.out.verify \in VerifyErrors

C16_BothExpirationsChecked ==
    Renewed => DateParse(OldPayload.expires) > last.at

\* a cookie instruction that sets the session cookie with the attributes
\* of the claim, its Expires that of the payload it carries
MirrorsPayload(c) ==
    /\ c.op = "set"
    /\ c.name = "session"
    /\ c.httpOnly
    /\ c.secure
    /\ c.sameSite = "lax"
    /\ c.value.kind = "jwt"
    /\ c.expires = DateParse(c.value.payload.expires)

\* and written by an operation whose Date.now() read t
WellFormedSessionCookie(c, t) ==
    /\ MirrorsPayload(c)
    /\ c.expires = t + 24 * 60 * 60 * 1000

\* C18: every session cookie written by setSession or by the gatekeeper's
\* renewal is named session, is HttpOnly, Secure and SameSite=Lax, and its
\* Expires attribute equals the expires field of the payload in its token,
\* which is the Date.now() reading of the writing operation plus 24 hours;
\* every cookie in flight or held by the client has these attributes and
\* an Expires equal to its payload's expires
C18_CookieAttributes ==
    /\ last.op = "setSession" => WellFormedSessionCookie(last.cookie, last.at)
    /\ Renewed => WellFormedSessionCookie(last.out.response.cookie, last.at)
    /\ \A c \in inflight \cup {jar} :
          (c # NoCookie /\ c.op = "set")
             => (MirrorsPayload(c) /\ c.expires <= now + 24 * 60 * 60 * 1000)

C18_Witness ==
    /\ Renewed
    /\ last.at > 0
    /\ last.done > last.at
    /\ WellFormedSessionCookie(last.out.response.cookie, last.at)
    /\ jar # NoCookie
    /\ jar.expires < last.out.response.cookie.expires
    /\ last.out.response.cookie \in inflight

\* C20: every token the system signs carries a user id setSession was
\* called with before; the gatekeeper signs only after the token presented
\* in the same request verified, and only for that token's user id; a
\* request without a session cookie gets no session cookie set
C20_GatekeeperNeverMintsIdentity ==
    [][ /\ \A e \in signLog' \ signLog :
             \/ /\ e.by = "setSession"
                /\ last'.op = "setSession"
                /\ e.tok = last'.cookie.value
                /\ e.tok.payload.user.id = last'.user
             \/ /\ e.by = "middleware"
                /\ last'.op = "middleware"
                /\ e.from = last'.request.cookie
                /\ e.tok = last'.out.signed
                /\ verifyToken(e.from, last'.at).ok
                /\ e.tok.payload.user.id = e.from.payload.user.id
                /\ \E f \in signLog :
                      /\ f.by = "setSession"
                      /\ f.tok.payload.user.id = e.tok.payload.user.id
        /\ (last' # last /\ last'.op = "middleware")
             => /\ last'.out.signed # NoToken
                   => \E e \in signLog' : e.tok = last'.out.signed
                /\ last'.request.cookie = NoCookie
                   => /\ last'.out.response.cookie.op # "set"
                      /\ last'.out.signed = NoToken ]_vars

C20_Witness ==
    /\ Renewed
    /\ last.request.cookie \in Signed
    /\ \E e \in signLog :
          /\ e.by = "middleware"
          /\ e.tok = last.out.signed
          /\ e.from = last.request.cookie
          /\ e.tok.payload.user.id = e.from.payload.user.id
          /\ e.tok # e.from
    /\ \E f \in signLog :
          f.by = "setSession" /\ f.tok = last.request.cookie

---------------------------------------------------------------------------
(* Properties of the action validator (specification SpecAction) *)

Invoked == act.op = "done"
Submitted == fromEntries(act.call.formData)

\* the submitted field set violates the schema: a field of the shape is
\* missing, or its value fails one of the field's checks
Violates(schema, obj) ==
    \E i \in DOMAIN schema :
        \/ schema[i].name \notin DOMAIN obj
        \/ \E j \in DOMAIN schema[i].checks :
              ~ Passes(schema[i].checks[j], obj[schema[i].name])

HandlerCalls == {i \in DOMAIN act.run.calls : act.run.calls[i].fn = "action"}

ReturnedError ==
    /\ act.run.outcome.kind = "returned"
    /\ DOMAIN act.run.outcome.value = {"error"}
    /\ act.run.outcome.value.error \in
          {"Required", "Invalid email", "String must contain at least 8 character(s)"}

\* C7: the action validatedAction produced returns an error result and does
\* not invoke the handler when the submitted fields violate the schema; the
\* handler is only ever given data the parse accepted, which holds the
\* fields of the shape and satisfies the schema
C7_ViolationNeverReachesHandler ==
    (Invoked /\ act.call.variant = "validatedAction")
        => /\ Violates(act.call.schema, Submitted)
              => (ReturnedError /\ HandlerCalls = {})
           /\ \A i \in HandlerCalls :
                 /\ ~ Violates(act.call.schema, act.run.calls[i].args[1])
                 /\ act.run.calls[i].args[1] = safeParse(act.call.schema, Submitted).data

C7_Witness ==
    /\ Invoked
    /\ act.call.variant = "validatedAction"
    /\ act.call.schema = SignInSchema
    /\ act.call.formData = << <<"email", NotAnEmail>>, <<"password", Short>> >>
    /\ act.run.outcome.value = [error |-> "Invalid email"]
    /\ HandlerCalls = {}

\* C8: when the user resolver yields no user, the action
\* validatedActionWithUser produced does not invoke the handler and fails by
\* throwing, not by returning an error result, valid data or not
C8_NoUserThrows ==
    (Invoked /\ act.call.variant = "validatedActionWithUser" /\ act.call.user = NoUser)
        => /\ act.run.outcome.kind = "threw"
           /\ act.run.outcome.error = "User is not authenticated"
           /\ HandlerCalls = {}

C8_Witness ==
    /\ Invoked
    /\ act.call.variant = "validatedActionWithUser"
    /\ act.call.user = NoUser
    /\ ~ Violates(act.call.schema, Submitted)
    /\ act.run.outcome.kind = "threw"

\* C9 as stated: an invocation of either produced action whose submitted
\* data violates the schema returns an error result and never throws,
\* whatever the user resolver yields
C9_ViolationNeverThrows ==
    (Invoked /\ Violates(act.call.schema, Submitted)) => ReturnedError

\* C9 amended: an invocation whose submitted data violates the schema returns
\* an error result and does not throw, for validatedAction always and for
\* validatedActionWithUser when the user resolver yields a user; when it
\* yields none or fails, the call throws before the data is looked at
C9_ViolationReturnsErrorGivenUser ==
    (Invoked /\ Violates(act.call.schema, Submitted))
        => IF act.call.variant = "validatedAction" \/ act.call.user.kind = "user"
           THEN ReturnedError
           ELSE act.run.outcome.kind = "threw" /\ act.run.calls = << [fn |-> "getUser"] >>

C9_Witness ==
    /\ Invoked
    /\ act.call.variant = "validatedActionWithUser"
    /\ act.call.user.kind = "user"
    /\ Violates(act.call.schema, Submitted)
    /\ ReturnedError

\* C10 as stated: in every invocation of either produced action the parse
\* against the schema is the first call; a call that ends in a validation
\* failure has made no collaborator call
C10_ValidationIsFirstStep ==
    Invoked
        => /\ act.run.calls[1].fn = "safeParse"
           /\ (act.run.outcome.kind = "returned" /\ Violates(act.call.schema, Submitted))
                 => act.run.calls = << [fn |-> "safeParse"] >>

\* C10 amended: the parse against the schema always comes before the
\* handler; in validatedAction it is the first call, and a call that ends in
\* a validation failure has made no collaborator call; in
\* validatedActionWithUser the user resolver is called first, so a call that
\* ends in a validation failure has called the user resolver, then the
\* parse, and never the handler
C10_ValidationBeforeHandler ==
    Invoked
        => /\ \A i \in HandlerCalls :
                 \E j \in 1..(i - 1) : act.run.calls[j].fn = "safeParse"
           /\ act.run.calls[1].fn =
                 (IF act.call.variant = "validatedAction" THEN "safeParse" ELSE "getUser")
           /\ (act.run.outcome.kind = "returned" /\ Violates(act.call.schema, Submitted))
                 => act.run.calls =
                       (IF act.call.variant = "validatedAction"
                        THEN << [fn |-> "safeParse"] >>
                        ELSE << [fn |-> "getUser"], [fn |-> "safeParse"] >>)

C10_Witness ==
    /\ Invoked
    /\ act.call.variant = "validatedActionWithUser"
    /\ act.call.user.kind = "user"
    /\ Violates(act.call.schema, Submitted)
    /\ act.run.calls = << [fn |-> "getUser"], [fn |-> "safeParse"] >>

---------------------------------------------------------------------------
(* Properties of the session store (specification SpecStore) *)

\* C11: setSession({id: U}) leaves the client holding the cookie it wrote,
\* whatever cookie the client held before, and a getSession that follows it
\* immediately (same clock reading, the cookie still the one written)
\* returns a payload whose user.id is U
C11_SetThenGetReturnsUser ==
    [][ /\ (last'.op = "setSession" /\ last' # last) => jar' = last'.cookie
        /\ (last.op = "setSession" /\ jar = last.cookie /\ now = last.done
              /\ last'.op = "getSession")
             => /\ last'.out.kind = "payload"
                /\ last'.out.payload.user.id = last.user ]_vars

C11_Witness ==
    /\ last.op = "getSession"
    /\ last.prev.op = "setSession"
    /\ last.at = last.prev.done
    /\ last.cookie = last.prev.cookie.value
    /\ last.out.kind = "payload"
    /\ last.out.payload.user.id = last.prev.user
    /\ \E e \in signLog :
          e.by = "setSession" /\ e.tok.payload.user.id # last.prev.user

\* C19, as stated: after a sign-out, and until the next setSession, the
\* client holds no session cookie, whatever responses arrive in between
C19_DeletedStaysDeleted ==
    last.op = "clearSession" => jar = NoCookie

\* C19, amended: a deletion (sign-out, or the delete instruction of a
\* failed verification) leaves the client without a session cookie, and a
\* read without a cookie returns null; from then on the client comes to
\* hold a session cookie again only by a setSession or by the arrival of a
\* renewal response, still in flight, that the gatekeeper signed for a
\* request carrying a token signed earlier for the same user
C19_DeletedUntilNextWrite ==
    [][ /\ (last' # last /\ last'.op = "clearSession") => jar' = NoCookie
        /\ \A c \in inflight :
             (inflight' = inflight \ {c} /\ c.op = "delete" /\ last' = last)
                => jar' = NoCookie
        /\ (last' # last /\ last'.op = "getSession" /\ jar = NoCookie)
             => last'.out.kind = "null"
        /\ (jar = NoCookie /\ jar' # NoCookie)
             => \/ /\ last' # last
                   /\ last'.op = "setSession"
                   /\ jar' = last'.cookie
                \/ /\ jar' \in inflight
                   /\ inflight' = inflight \ {jar'}
                   /\ \E e \in signLog :
                         /\ e.by = "middleware"
                         /\ e.tok = jar'.value
                         /\ e.from \in Signed
                         /\ e.from.payload.user.id = e.tok.payload.user.id
      ]_vars

C19_Witness ==
    /\ last.op = "clearSession"
    /\ last.before # NoCookie
    /\ jar # NoCookie
    /\ inflight = {}
    /\ \E e \in signLog :
          /\ e.by = "middleware"
          /\ e.tok = jar.value
          /\ e.from = last.before.value

---------------------------------------------------------------------------
(* Properties of the codec and the session read (specification SpecCodec) *)

RoundTripped == act.op = "done" /\ act.call.fn = "roundTrip"
BeforeExpiry == Epoch(act.call.tVerify) < Epoch(act.call.tSign) + ONE_DAY_SECS

\* C12, as stated: verifyToken(signToken(P)) evaluated before the token
\* expires succeeds and returns a payload equal to P
C12_RoundTripReturnsEqualPayload ==
    (RoundTripped /\ BeforeExpiry)
       => (act.out.ok /\ act.out.payload = act.call.payload)

\* C12, amended: verifyToken(signToken(P)) evaluated before the token
\* expires succeeds and returns P's user and expires unchanged, together
\* with the iat and exp claims stamped at signing (the second of signing,
\* and a day after it)
C12_RoundTripKeepsUserAndExpires ==
    (RoundTripped /\ BeforeExpiry)
       => /\ act.out.ok
          /\ DOMAIN act.out.payload = {"user", "expires", "iat", "exp"}
          /\ act.out.payload.user = act.call.payload.user
          /\ act.out.payload.expires = act.call.payload.expires
          /\ act.out.payload.iat = Epoch(act.call.tSign)
          /\ act.out.payload.exp = Epoch(act.call.tSign) + ONE_DAY_SECS

C12_Witness ==
    /\ RoundTripped
    /\ BeforeExpiry
    /\ act.call.tSign < act.call.tVerify
    /\ act.call.payload \in RenewalPayloads
    /\ act.out.ok
    /\ act.out.payload # act.call.payload
    /\ act.out.payload.user = act.call.payload.user

SessionRead == act.op = "done" /\ act.call.fn = "getSession"

\* C13: getSession returns null exactly when the request carries no session
\* cookie or an empty one; when a cookie is present and its verification
\* fails, getSession throws the codec's failure, and when it verifies,
\* getSession returns the payload
C13_NullOnlyWithoutCookie ==
    SessionRead =>
       LET c == act.call.cookie
           v == verifyToken(c, act.call.t)
       IN  /\ act.out.kind = "null" <=> c \in {NoCookie, EmptyValue}
           /\ (c \notin {NoCookie, EmptyValue} /\ ~ v.ok)
                => (act.out.kind = "threw" /\ act.out.error = v.error)
           /\ (c \notin {NoCookie, EmptyValue} /\ v.ok)
                => (act.out.kind = "payload" /\ act.out.payload = v.payload)

C13_Witness ==
    /\ SessionRead
    /\ act.call.cookie \in CodecTokens
    /\ act.out.kind = "threw"
    /\ act.out.error = "Expired"

---------------------------------------------------------------------------
(* Properties of user resolution (specification SpecAccount) *)

\* the call carried a well-signed session, neither expiration passed, whose
\* user id has no live account
OrphanSession ==
    /\ act.op = "done"
    /\ act.call.cookie # NoCookie
    /\ verifyToken(act.call.cookie, act.call.t).ok
    /\ DateParse(act.call.cookie.payload.expires) > act.call.t
    /\ act.call.table[act.call.cookie.payload.user.id] # "live"

\* C17: a well-signed, unexpired session of a missing or soft-deleted
\* account is treated as no session: getUser yields null,
\* validatedActionWithUser does not invoke its handler, and the gatekeeper
\* answers as it answers the same request without a cookie and signs nothing
C17_DeletedAccountIsNoSession ==
    OrphanSession =>
       /\ act.call.fn = "getUser" => act.out = NoUser
       /\ act.call.fn = "validatedActionWithUser"
            => /\ HandlerCalls = {}
               /\ act.run.outcome = [kind |-> "threw",
                                     error |-> "User is not authenticated"]
       /\ act.call.fn = "middleware"
            => /\ act.out.response = act.bare.response
               /\ act.out.signed = NoToken

====
